---- MODULE Spec2Model ----
(***************************************************************************)
(* tmdb-utils: Record.from_dict, Record.write_to_postgres, Record.get_id   *)
(* (src/src/tmdb_utils/Record.py), the entity insert statements            *)
(* (src/src/tmdb_utils/DataClasses.py) and the storage wrapper             *)
(* (src/src/tmdb_utils/Database.py) over the tables that                   *)
(* Database.set_up_tables provisions.                                      *)
(*                                                                         *)
(* A statement is kept as its structure (table, columns, values, conflict  *)
(* target), not as SQL text.  A storage call is one atomic step; each call *)
(* may fail for a reason outside the program (the except branch of the     *)
(* Database methods), which the actions choose with a boolean `fault`.     *)
(***************************************************************************)
EXTENDS Integers, Sequences, FiniteSets, TLC

VARIABLES
    db,           \* table name -> set of rows stored (committed)
    serial,       \* table name -> last value handed out by the id sequence
    raw,          \* name of the raw record last given to Record.from_dict
    rec,          \* the Record that call built, or NoRecord
    build_error,  \* the exception that call raised, or NoError
    run,          \* the write_to_postgres call in progress (position in the method)
    calls,        \* the storage calls the current/last run issued, with results
    printed,      \* the lines the current/last run of write_to_postgres printed
    ret,          \* what the last completed write_to_postgres returned
    gid,          \* the current/last Record.get_id invocation and what it did
    nruns,        \* number of write_to_postgres calls started
    nfaults,      \* number of storage calls that failed for an outside reason
    conn,         \* the transaction state of Database.connection
    ins,          \* the Database.execute_insert call in progress, statement by statement
    conc          \* two Record.get_id invocations running side by side

vars == <<db, serial, raw, rec, build_error, run, calls, printed, ret, gid, nruns, nfaults,
          conn, ins, conc>>

(***************************************************************************)
(* Bounds                                                                  *)
(***************************************************************************)
\* write_to_postgres calls in one behaviour
MaxRuns == 2
\* storage calls that fail for a reason outside the program, in one behaviour
MaxFaults == 2
\* Database.execute_insert calls made one after the other in one behaviour
MaxInserts == 3

(***************************************************************************)
(* Python values                                                           *)
(***************************************************************************)
PyNone == [t |-> "NoneType"]
PyInt(n) == [t |-> "int", v |-> n]
PyStr(s) == [t |-> "str", v |-> s]

NoRecord == [t |-> "NoRecord"]
NoError == "NoError"
NoReturn == [t |-> "NoReturn"]

(***************************************************************************)
(* DataClasses.py: the entities and their insert statements                *)
(***************************************************************************)
Collection(d) == [id |-> d.id, name |-> d.name, table_name |-> "tmdb_collection"]
Genre(d) == [id |-> d.id, name |-> d.name, table_name |-> "tmdb_genres"]
ProductionCompany(d) == [id |-> d.id, name |-> d.name, table_name |-> "tmdb_production_companies"]
Keyword(d) == [id |-> d.id, name |-> d.name, table_name |-> "tmdb_keywords"]
Country(d) == [iso_3166_1 |-> d.iso_3166_1, name |-> d.name, table_name |-> "tmdb_countries", id |-> PyNone]
Language(d) == [iso_639_1 |-> d.iso_639_1, name |-> d.name, table_name |-> "tmdb_languages", id |-> PyNone]
Cast(movie_id, d) ==
    [id |-> d.id, movie_id |-> movie_id, character |-> d.character, name |-> d.name,
     table_name |-> "tmdb_cast"]
Crew(movie_id, d) == [id |-> d.id, movie_id |-> movie_id, name |-> d.name, table_name |-> "tmdb_crew"]

\* INSERT INTO table VALUES(...) ON CONFLICT (id) DO NOTHING
InsertAll(table, values) ==
    [op |-> "INSERT", table |-> table, columns |-> "all", values |-> values, on_conflict |-> "id"]

\* INSERT INTO table(iso, name) VALUES(...) ON CONFLICT (id) DO NOTHING
InsertNatural(table, values) ==
    [op |-> "INSERT", table |-> table, columns |-> "natural", values |-> values, on_conflict |-> "id"]

Collection_get_insert_statement(self) ==
    InsertAll(self.table_name, [id |-> self.id, name |-> self.name])

Genre_get_insert_statement(self) ==
    InsertAll(self.table_name, [id |-> self.id, name |-> self.name])

ProductionCompany_get_insert_statement(self) ==
    InsertAll(self.table_name, [id |-> self.id, name |-> self.name])

Keyword_get_insert_statement(self) ==
    InsertAll(self.table_name, [id |-> self.id, name |-> self.name])

\* the id left out of the statement whether or not it is set
Country_get_insert_statement_MutNoId(self) ==
    InsertNatural(self.table_name, [iso |-> self.iso_3166_1, name |-> self.name])
    @@ [column_list |-> <<"iso_3166_1", "name">>,
        value_list |-> <<PyStr(self.iso_3166_1), PyStr(self.name)>>]

\* column_list and value_list keep the order of the statement's text
Country_get_insert_statement(self) ==
    IF self.id = PyNone
    THEN InsertNatural(self.table_name, [iso |-> self.iso_3166_1, name |-> self.name])
         @@ [column_list |-> <<"iso_3166_1", "name">>,
             value_list |-> <<PyStr(self.iso_3166_1), PyStr(self.name)>>]
    ELSE InsertAll(self.table_name, [id |-> self.id.v, iso |-> self.iso_3166_1, name |-> self.name])
         @@ [column_list |-> <<>>,
             value_list |-> <<self.id, PyStr(self.iso_3166_1), PyStr(self.name)>>]

Language_get_insert_statement(self) ==
    IF self.id = PyNone
    THEN InsertNatural(self.table_name, [iso |-> self.iso_639_1, name |-> self.name])
         @@ [column_list |-> <<"iso_639_1", "name">>,
             value_list |-> <<PyStr(self.iso_639_1), PyStr(self.name)>>]
    ELSE InsertAll(self.table_name, [id |-> self.id.v, iso |-> self.iso_639_1, name |-> self.name])
         @@ [column_list |-> <<>>,
             value_list |-> <<self.id, PyStr(self.iso_639_1), PyStr(self.name)>>]

\* Text is a sequence of tokens: "/", " ", "$$", "," and the brackets stand for
\* themselves, any other token is a run of characters free of them.
\* str.split(sep): the pieces of s between the occurrences of sep
RECURSIVE split(_, _)
split(s, sep) ==
    IF \A i \in 1..Len(s) : s[i] # sep
    THEN <<s>>
    ELSE LET i == CHOOSE i \in 1..Len(s) : s[i] = sep /\ \A j \in 1..(i - 1) : s[j] # sep
         IN <<SubSeq(s, 1, i - 1)>> \o split(SubSeq(s, i + 1, Len(s)), sep)

\* sep.join(parts)
RECURSIVE join(_, _)
join(sep, parts) ==
    IF parts = <<>> THEN <<>>
    ELSE IF Len(parts) = 1 THEN parts[1]
    ELSE parts[1] \o sep \o join(sep, Tail(parts))

\* ARRAY[$${'$$, '.join(self.character.split('/'))}$$]
CharacterArray(character) ==
    <<"ARRAY[", "$$">> \o join(<<"$$", ",", " ">>, split(character, "/")) \o <<"$$", "]">>

Cast_get_insert_statement(self) ==
    InsertAll(self.table_name, [id |-> self.id, movie_id |-> self.movie_id,
                                character |-> CharacterArray(self.character),
                                name |-> self.name])

Crew_get_insert_statement(self) ==
    InsertAll(self.table_name, [id |-> self.id, movie_id |-> self.movie_id, name |-> self.name])

\* The natural-key lookup of Country and Language: SELECT id FROM table WHERE iso = code
Country_get_id_query_statement(self) ==
    [op |-> "SELECT", column |-> "id", table |-> self.table_name,
     where |-> "iso_3166_1", iso |-> self.iso_3166_1]

Language_get_id_query_statement(self) ==
    [op |-> "SELECT", column |-> "id", table |-> self.table_name,
     where |-> "iso_639_1", iso |-> self.iso_639_1]

IsCountry(obj) == obj.table_name = "tmdb_countries"

\* obj.get_insert_statement() / obj.get_id_query_statement() as Record.get_id calls them
get_insert_statement(obj) ==
    IF IsCountry(obj) THEN Country_get_insert_statement(obj) ELSE Language_get_insert_statement(obj)

get_id_query_statement(obj) ==
    IF IsCountry(obj) THEN Country_get_id_query_statement(obj) ELSE Language_get_id_query_statement(obj)

(***************************************************************************)
(* Database.py: the tables of set_up_tables and the three storage calls    *)
(***************************************************************************)
Tables == {"tmdb_movies", "tmdb_collection", "tmdb_genres", "tmdb_production_companies",
           "tmdb_countries", "tmdb_languages", "tmdb_keywords", "tmdb_cast", "tmdb_crew"}

\* id serial PRIMARY KEY, iso varchar(2) UNIQUE
SerialTables == {"tmdb_countries", "tmdb_languages"}

\* movie_id integer REFERENCES tmdb_movies(id)
ReferencingTables == {"tmdb_cast", "tmdb_crew"}

IdsIn(d, table) == {row.id : row \in d[table]}

\* The UNIQUE constraint of the iso column: does the new row collide?
UniqueIsoMutNone(d, table, iso) == FALSE

UniqueIsoViolated(d, table, iso) == \E row \in d[table] : row.iso = iso

\* What ON CONFLICT (id) DO NOTHING leaves of the table when the id is already there
OnConflictMutUpdate(rows, new) == {row \in rows : row.id # new.id} \cup {new}

OnConflictDoNothing(rows, new) == rows

\* cursor.execute(statement) for an INSERT: [raised, db, serial].  The sequence
\* of a serial column is advanced even when the statement then fails.
ExecInsert(d, s, stmt) ==
    LET table == stmt.table
        natural == stmt.columns = "natural"
        newid == IF natural THEN s[table] + 1 ELSE stmt.values.id
        s2 == IF natural THEN [s EXCEPT ![table] = newid] ELSE s
        row == IF natural
               THEN [id |-> newid, iso |-> stmt.values.iso, name |-> stmt.values.name]
               ELSE stmt.values
    IN  IF newid \in IdsIn(d, table)
        THEN [raised |-> FALSE, db |-> [d EXCEPT ![table] = OnConflictDoNothing(@, row)], serial |-> s2]
        ELSE IF table \in SerialTables /\ UniqueIsoViolated(d, table, row.iso)
        THEN [raised |-> TRUE, db |-> d, serial |-> s2]
        ELSE IF table \in ReferencingTables /\ row.movie_id \notin IdsIn(d, "tmdb_movies")
        THEN [raised |-> TRUE, db |-> d, serial |-> s2]
        ELSE [raised |-> FALSE, db |-> [d EXCEPT ![table] = @ \cup {row}], serial |-> s2]

\* a failed insert whose row stays in the table: no rollback
execute_insert_MutKeepsFailedRow(d, s, stmt, fault) ==
    IF fault
    THEN [ok |-> FALSE, db |-> d, serial |-> s]
    ELSE LET r == ExecInsert(d, s, stmt)
             kept == IF stmt.columns = "natural"
                     THEN [id |-> r.serial[stmt.table], iso |-> stmt.values.iso,
                           name |-> stmt.values.name]
                     ELSE stmt.values
         IN  IF r.raised
             THEN [ok |-> FALSE, db |-> [d EXCEPT ![stmt.table] = @ \cup {kept}],
                   serial |-> r.serial]
             ELSE [ok |-> TRUE, db |-> r.db, serial |-> r.serial]

\* Database.execute_insert: False and rollback when execute raises, else commit and True
execute_insert(d, s, stmt, fault) ==
    IF fault
    THEN [ok |-> FALSE, db |-> d, serial |-> s]
    ELSE LET r == ExecInsert(d, s, stmt)
         IN  IF r.raised
             THEN [ok |-> FALSE, db |-> d, serial |-> r.serial]
             ELSE [ok |-> TRUE, db |-> r.db, serial |-> r.serial]

MinOf(S) == CHOOSE x \in S : \A y \in S : x <= y

\* Database.execute_query_for_one: None when execute raises or no row, else data[0][0]
execute_query_for_one(d, stmt, fault) ==
    IF fault
    THEN PyNone
    ELSE LET data == {row.id : row \in {r \in d[stmt.table] : r.iso = stmt.iso}}
         IN  IF data = {} THEN PyNone ELSE PyInt(MinOf(data))


(***************************************************************************)
(* Raw records: the inputs of Record.from_dict                             *)
(***************************************************************************)
RawMovie1 ==
    [id |-> 1, title |-> "Alpha", original_language |-> "en", release_date |-> "2015-02-20",
     belongs_to_collection |-> <<[id |-> 10, name |-> "Saga"]>>,
     genres |-> <<[id |-> 35, name |-> "Comedy"]>>,
     production_companies |-> <<[id |-> 4, name |-> "ACME"]>>,
     keywords |-> <<[id |-> 4379, name |-> "time travel"]>>,
     cast |-> <<[id |-> 100, name |-> "John Doe",
                character |-> <<"John Doe", "/", " ", "Jane Doe", "/", " ", "Other">>]>>,
     crew |-> <<[id |-> 200, name |-> "Jane Doe"]>>,
     spoken_languages |-> <<[iso_639_1 |-> "en", name |-> "English"]>>,
     production_countries |-> <<[iso_3166_1 |-> "US", name |-> "USA"]>>]

\* shares the collection id (under another name) and the language en with RawMovie1
RawMovie2 ==
    [id |-> 2, title |-> "Beta", original_language |-> "fr", release_date |-> "released 1999-12-31",
     belongs_to_collection |-> <<[id |-> 10, name |-> "Saga II"], [id |-> 11, name |-> "Other"]>>,
     genres |-> <<>>,
     production_companies |-> <<>>,
     keywords |-> <<>>,
     cast |-> <<>>,
     crew |-> <<>>,
     spoken_languages |-> <<[iso_639_1 |-> "fr", name |-> "French"], [iso_639_1 |-> "en", name |-> "English"]>>,
     production_countries |-> <<>>]

Without(d, key) == [k \in DOMAIN d \ {key} |-> d[k]]

RawRecords ==
    [movie1 |-> RawMovie1,
     movie2 |-> RawMovie2,
     no_collection |-> [RawMovie1 EXCEPT !.belongs_to_collection = <<>>],
     no_title |-> Without(RawMovie1, "title"),
     no_genres |-> Without(RawMovie2, "genres"),
     bad_date |-> [RawMovie2 EXCEPT !.release_date = "not a date"]]

RawNames == DOMAIN RawRecords

\* parser.parse(text, fuzzy_with_tokens=True)[0].date() on the strings it finds a
\* date in, as <<year, month, day>>; on any other string it raises ValueError
ParsedDates == [d \in {"2015-02-20", "released 1999-12-31"} |->
                  IF d = "2015-02-20" THEN <<2015, 2, 20>> ELSE <<1999, 12, 31>>]

ParsableDates == DOMAIN ParsedDates

(***************************************************************************)
(* Record.py                                                               *)
(***************************************************************************)
\* the subset of basic_keys the model carries
basic_keys == {"id", "title", "original_language"}

list_keys == <<"genres", "belongs_to_collection", "production_companies", "keywords",
               "cast", "crew", "spoken_languages", "production_countries">>

\* [...][0] with the list empty: no IndexError, an empty collection instead
first_collection_MutDefault(raw_record) ==
    IF Len(raw_record.belongs_to_collection) = 0
    THEN [raised |-> "NoError", value |-> Collection([id |-> 0, name |-> ""])]
    ELSE [raised |-> "NoError", value |-> Collection(raw_record.belongs_to_collection[1])]

\* [dc.Collection(**collection) for collection in raw_record['belongs_to_collection']][0]
first_collection(raw_record) ==
    IF Len(raw_record.belongs_to_collection) = 0
    THEN [raised |-> "IndexError", value |-> NoRecord]
    ELSE [raised |-> "NoError", value |-> Collection(raw_record.belongs_to_collection[1])]

\* Record.from_dict: [raised, value], in the order the method evaluates
from_dict(raw_record) ==
    LET failed(e) == [raised |-> e, value |-> NoRecord]
        missing == {i \in 1..Len(list_keys) : list_keys[i] \notin DOMAIN raw_record}
    IN  IF "release_date" \notin DOMAIN raw_record THEN failed("KeyError")
        ELSE IF raw_record.release_date \notin ParsableDates THEN failed("ValueError")
        ELSE IF "genres" \notin DOMAIN raw_record THEN failed("KeyError")
        ELSE IF "belongs_to_collection" \notin DOMAIN raw_record THEN failed("KeyError")
        ELSE IF first_collection(raw_record).raised # "NoError" THEN failed(first_collection(raw_record).raised)
        ELSE IF missing # {} \/ "id" \notin DOMAIN raw_record THEN failed("KeyError")
        ELSE IF ~(basic_keys \subseteq DOMAIN raw_record) THEN failed("TypeError")
        ELSE [raised |-> "NoError",
              value |-> [id |-> raw_record.id, title |-> raw_record.title,
                         original_language |-> raw_record.original_language,
                         release_date |-> ParsedDates[raw_record.release_date],
                         collection |-> first_collection(raw_record).value,
                         genres |-> [i \in 1..Len(raw_record.genres) |-> Genre(raw_record.genres[i])],
                         production_companies |-> [i \in 1..Len(raw_record.production_companies) |-> ProductionCompany(raw_record.production_companies[i])],
                         keywords |-> [i \in 1..Len(raw_record.keywords) |-> Keyword(raw_record.keywords[i])],
                         cast |-> [i \in 1..Len(raw_record.cast) |-> Cast(raw_record.id, raw_record.cast[i])],
                         crew |-> [i \in 1..Len(raw_record.crew) |-> Crew(raw_record.id, raw_record.crew[i])],
                         spoken_languages |-> [i \in 1..Len(raw_record.spoken_languages) |-> Language(raw_record.spoken_languages[i])],
                         production_countries |-> [i \in 1..Len(raw_record.production_countries) |-> Country(raw_record.production_countries[i])],
                         table_name |-> "tmdb_movies"]]

\* [str(x.id) for x in xs if x.id is not '']: an id is None or an int, never ''
IdsNotEmptyStr(xs) ==
    LET ids == [i \in 1..Len(xs) |-> xs[i].id]
    IN  SelectSeq(ids, LAMBDA v : v # PyStr(""))

\* Record.get_movie_insert_statement
get_movie_insert_statement(self) ==
    InsertAll(self.table_name,
        [id |-> self.id,
         collection_id |-> self.collection.id,
         genre_ids |-> [i \in 1..Len(self.genres) |-> self.genres[i].id],
         original_language |-> self.original_language,
         production_company_ids |-> [i \in 1..Len(self.production_companies) |-> self.production_companies[i].id],
         production_country_ids |-> IdsNotEmptyStr(self.production_countries),
         release_date |-> self.release_date,
         spoken_language_ids |-> IdsNotEmptyStr(self.spoken_languages),
         title |-> self.title,
         keyword_ids |-> [i \in 1..Len(self.keywords) |-> self.keywords[i].id]])

(***************************************************************************)
(* Record.write_to_postgres as the sequence of its steps                   *)
(***************************************************************************)
StepsOf(field, n) == [i \in 1..n |-> [phase |-> field, i |-> i]]

\* the cast loop placed ahead of the movie insert
StepsMutCastFirst(self) ==
    StepsOf("spoken_languages", Len(self.spoken_languages))
    \o StepsOf("production_countries", Len(self.production_countries))
    \o StepsOf("cast", Len(self.cast))
    \o <<[phase |-> "movie", i |-> 0], [phase |-> "collection", i |-> 0]>>
    \o StepsOf("genres", Len(self.genres))
    \o StepsOf("production_companies", Len(self.production_companies))
    \o StepsOf("keywords", Len(self.keywords))
    \o StepsOf("crew", Len(self.crew))

\* the statements of write_to_postgres in program order, loops unrolled
Steps(self) ==
    StepsOf("spoken_languages", Len(self.spoken_languages))
    \o StepsOf("production_countries", Len(self.production_countries))
    \o <<[phase |-> "movie", i |-> 0], [phase |-> "collection", i |-> 0]>>
    \o StepsOf("genres", Len(self.genres))
    \o StepsOf("production_companies", Len(self.production_companies))
    \o StepsOf("keywords", Len(self.keywords))
    \o StepsOf("cast", Len(self.cast))
    \o StepsOf("crew", Len(self.crew))

Idle == [r |-> "none", status |-> "idle", k |-> 0, sub |-> "none"]

NoGetId == [state |-> "none"]

Running == run.status = "running"
Self == rec
AtEnd == run.k > Len(Steps(Self))
Step == Steps(Self)[run.k]
InGetId == Running /\ ~AtEnd /\ Step.phase \in {"spoken_languages", "production_countries"}
Obj == Self[Step.phase][Step.i]

\* a failed write stops the method
NextStepMutAbort(self, k, ok) == IF ok THEN k + 1 ELSE Len(Steps(self)) + 1

\* the statement after step k, whatever the write returned
NextStep(self, k, ok) == k + 1

\* print(f'Failed to write <kind>: <name>') when execute_insert returned False
FailureLines(kind, name, ok) ==
    IF ~ok THEN <<[line |-> "Failed to write", kind |-> kind, name |-> name]>> ELSE <<>>

\* the collection's branch with its test inverted
CollectionLinesMutInverted(name, ok) == FailureLines("Collection", name, ~ok)

\* if execute_insert(collection): pass else: print(...)
CollectionLines(name, ok) == FailureLines("Collection", name, ok)

SuccessLine(self) == [line |-> "Successfully wrote", kind |-> "Movie", name |-> self.title]

\* get_id inserts before it looks
NeedsInsertMutAlways(orig_id) == TRUE

\* if orig_id is None
NeedsInsert(orig_id) == orig_id = PyNone

\* an unresolved id is papered over with a made-up one
RequeryResultMutPlaceholder(new_id) == IF new_id = PyNone THEN PyInt(0) ELSE new_id

\* return database.execute_query_for_one(...): the second lookup's value as it is
RequeryResult(new_id) == new_id

\* the outcomes a storage call can have: it runs, or it fails for an outside reason
Faults == IF nfaults < MaxFaults THEN BOOLEAN ELSE {FALSE}

Call(by, stmt, fault, result) ==
    [by |-> by, step |-> Step, stmt |-> stmt, fault |-> fault, result |-> result]

\* the connection between transactions; an execute_insert or get_id call not made
NoTransaction == [status |-> "idle", work |-> [t \in Tables |-> {}]]
NoInsert == [pc |-> "none", n |-> 0]
NoResolver == [pc |-> "none"]

\* the two concurrent callers of Record.get_id
Runs == {"A", "B"}

Init ==
    /\ db = [t \in Tables |-> {}]
    /\ serial = [t \in SerialTables |-> 0]
    /\ raw = "none"
    /\ rec = NoRecord
    /\ build_error = NoError
    /\ run = Idle
    /\ calls = <<>>
    /\ printed = <<>>
    /\ ret = NoReturn
    /\ gid = NoGetId
    /\ nruns = 0
    /\ nfaults = 0
    /\ conn = NoTransaction
    /\ ins = NoInsert
    /\ conc = [p \in Runs |-> NoResolver]

\* record = Record.from_dict(raw_record): a Record, or the exception raised
FromDict(r) ==
    /\ ~Running
    /\ raw' = r
    /\ LET b == from_dict(RawRecords[r])
       IN  /\ rec' = b.value
           /\ build_error' = b.raised
    /\ UNCHANGED <<db, serial, run, calls, printed, ret, gid, nruns, nfaults, conn, ins, conc>>

\* record.write_to_postgres(database) is called
WriteToPostgres ==
    /\ ~Running
    /\ rec # NoRecord
    /\ nruns < MaxRuns
    /\ nruns' = nruns + 1
    /\ run' = [r |-> raw, status |-> "running", k |-> 1, sub |-> "q1"]
    /\ calls' = <<>>
    /\ printed' = <<>>
    /\ ret' = NoReturn
    /\ gid' = NoGetId
    /\ UNCHANGED <<db, serial, raw, rec, build_error, nfaults, conn, ins, conc>>

\* language.id = self.get_id(language, database), and the method moves on
GetIdReturns(value) ==
    /\ rec' = [rec EXCEPT ![Step.phase][Step.i].id = value]
    /\ run' = [run EXCEPT !.k = NextStep(Self, run.k, TRUE), !.sub = "q1"]

\* get_id: orig_id = database.execute_query_for_one(obj.get_id_query_statement())
GetIdFirstQuery ==
    /\ InGetId /\ run.sub = "q1"
    /\ \E fault \in Faults :
         /\ nfaults' = IF fault THEN nfaults + 1 ELSE nfaults
         /\ LET stmt == get_id_query_statement(Obj)
                orig_id == execute_query_for_one(db, stmt, fault)
                g == [state |-> "running", step |-> Step, before |-> Obj,
                      q1 |-> orig_id, q1fault |-> fault, inserts |-> <<>>]
            IN  /\ calls' = Append(calls, Call("get_id", stmt, fault, orig_id))
                /\ IF NeedsInsert(orig_id)
                   THEN /\ run' = [run EXCEPT !.sub = "ins"]
                        /\ gid' = g
                        /\ UNCHANGED rec
                   ELSE /\ GetIdReturns(orig_id)
                        /\ gid' = [g EXCEPT !.state = "returned"] @@ [ret |-> orig_id]
    /\ UNCHANGED <<db, serial, raw, build_error, printed, ret, nruns, conn, ins, conc>>

\* get_id: database.execute_insert(obj.get_insert_statement()), result dropped
GetIdInsert ==
    /\ InGetId /\ run.sub = "ins"
    /\ \E fault \in Faults :
         /\ nfaults' = IF fault THEN nfaults + 1 ELSE nfaults
         /\ LET stmt == get_insert_statement(Obj)
                res == execute_insert(db, serial, stmt, fault)
            IN  /\ db' = res.db
                /\ serial' = res.serial
                /\ calls' = Append(calls, Call("get_id", stmt, fault, res.ok))
                /\ gid' = [gid EXCEPT !.inserts = Append(@, [stmt |-> stmt, ok |-> res.ok])]
    /\ run' = [run EXCEPT !.sub = "q2"]
    /\ UNCHANGED <<raw, rec, build_error, printed, ret, nruns, conn, ins, conc>>

\* get_id: return database.execute_query_for_one(obj.get_id_query_statement())
GetIdSecondQuery ==
    /\ InGetId /\ run.sub = "q2"
    /\ \E fault \in Faults :
         /\ nfaults' = IF fault THEN nfaults + 1 ELSE nfaults
         /\ LET stmt == get_id_query_statement(Obj)
                new_id == execute_query_for_one(db, stmt, fault)
            IN  /\ calls' = Append(calls, Call("get_id", stmt, fault, new_id))
                /\ gid' = [gid EXCEPT !.state = "returned"]
                            @@ [q2 |-> new_id, q2fault |-> fault, ret |-> RequeryResult(new_id)]
                /\ GetIdReturns(RequeryResult(new_id))
    /\ UNCHANGED <<db, serial, raw, build_error, printed, ret, nruns, conn, ins, conc>>

\* one "if not database.execute_insert(stmt): print(...)" of write_to_postgres
Write(phase, stmt, ifTrue, ifFalse) ==
    /\ Running /\ ~AtEnd /\ Step.phase = phase
    /\ \E fault \in Faults :
         /\ nfaults' = IF fault THEN nfaults + 1 ELSE nfaults
         /\ LET res == execute_insert(db, serial, stmt, fault)
            IN  /\ db' = res.db
                /\ serial' = res.serial
                /\ calls' = Append(calls, Call("write_to_postgres", stmt, fault, res.ok))
                /\ printed' = printed \o (IF res.ok THEN ifTrue ELSE ifFalse)
                /\ run' = [run EXCEPT !.k = NextStep(Self, run.k, res.ok)]
    /\ UNCHANGED <<raw, rec, build_error, ret, gid, nruns, conn, ins, conc>>

WriteMovie ==
    Write("movie", get_movie_insert_statement(Self),
          FailureLines("Movie", Self.title, TRUE),
          FailureLines("Movie", Self.title, FALSE))

WriteCollection ==
    Write("collection", Collection_get_insert_statement(Self.collection),
          CollectionLines(Self.collection.name, TRUE),
          CollectionLines(Self.collection.name, FALSE))

WriteGenre ==
    Write("genres", Genre_get_insert_statement(Self.genres[Step.i]),
          FailureLines("Genre", Self.genres[Step.i].name, TRUE),
          FailureLines("Genre", Self.genres[Step.i].name, FALSE))

WriteCompany ==
    Write("production_companies",
          ProductionCompany_get_insert_statement(Self.production_companies[Step.i]),
          FailureLines("Company", Self.production_companies[Step.i].name, TRUE),
          FailureLines("Company", Self.production_companies[Step.i].name, FALSE))

WriteKeyword ==
    Write("keywords", Keyword_get_insert_statement(Self.keywords[Step.i]),
          FailureLines("Keyword", Self.keywords[Step.i].name, TRUE),
          FailureLines("Keyword", Self.keywords[Step.i].name, FALSE))

WriteCast ==
    Write("cast", Cast_get_insert_statement(Self.cast[Step.i]),
          FailureLines("Cast", Self.cast[Step.i].name, TRUE),
          FailureLines("Cast", Self.cast[Step.i].name, FALSE))

WriteCrew ==
    Write("crew", Crew_get_insert_statement(Self.crew[Step.i]),
          FailureLines("Crew", Self.crew[Step.i].name, TRUE),
          FailureLines("Crew", Self.crew[Step.i].name, FALSE))

\* the closing print; the method ends without a return statement
Return ==
    /\ Running /\ AtEnd
    /\ printed' = Append(printed, SuccessLine(Self))
    /\ ret' = PyNone
    /\ run' = [run EXCEPT !.status = "returned"]
    /\ UNCHANGED <<db, serial, raw, rec, build_error, calls, gid, nruns, nfaults, conn, ins, conc>>

\* the next statement of the write_to_postgres call in progress
RunStep ==
    \/ GetIdFirstQuery
    \/ GetIdInsert
    \/ GetIdSecondQuery
    \/ WriteMovie
    \/ WriteCollection
    \/ WriteGenre
    \/ WriteCompany
    \/ WriteKeyword
    \/ WriteCast
    \/ WriteCrew
    \/ Return

Next ==
    \/ \E r \in RawNames : FromDict(r)
    \/ WriteToPostgres
    \/ GetIdFirstQuery
    \/ GetIdInsert
    \/ GetIdSecondQuery
    \/ WriteMovie
    \/ WriteCollection
    \/ WriteGenre
    \/ WriteCompany
    \/ WriteKeyword
    \/ WriteCast
    \/ WriteCrew
    \/ Return

Spec == Init /\ [][Next]_vars

(***************************************************************************)
(* Database.execute_insert statement by statement, on one connection.      *)
(* db holds what is committed, conn.work what the open transaction sees.   *)
(***************************************************************************)
seqvars == <<raw, rec, build_error, run, calls, printed, ret, gid, nruns, nfaults>>

\* the statements the calls are made with: those of one record's entities
TxRecord == from_dict(RawMovie1).value

TxStatements ==
    {get_movie_insert_statement(TxRecord),
     Collection_get_insert_statement(TxRecord.collection),
     Country_get_insert_statement(TxRecord.production_countries[1]),
     Cast_get_insert_statement(TxRecord.cast[1])}

\* execute_insert(statement) is entered: cur = self.connection.cursor()
ExecuteInsertCall(stmt) ==
    /\ ins.pc \in {"none", "returned", "raised"}
    /\ ins.n < MaxInserts
    /\ ins' = [pc |-> "execute", n |-> ins.n + 1, stmt |-> stmt,
               before |-> db, serial_before |-> serial]
    /\ UNCHANGED <<db, serial, conn, conc>>
    /\ UNCHANGED seqvars

\* try: cur.execute(statement), which opens the transaction; it raises when
\* the statement breaks a constraint or fails for an outside reason
CursorExecute ==
    /\ ins.pc = "execute"
    /\ \E fault \in BOOLEAN :
         LET base == IF conn.status = "idle" THEN db ELSE conn.work
             r == ExecInsert(base, serial, ins.stmt)
         IN  IF fault \/ r.raised
             THEN /\ conn' = [status |-> "failed", work |-> base]
                  /\ serial' = IF fault THEN serial ELSE r.serial
                  /\ ins' = [ins EXCEPT !.pc = "except"]
             ELSE /\ conn' = [status |-> "in_transaction", work |-> r.db]
                  /\ serial' = r.serial
                  /\ ins' = [ins EXCEPT !.pc = "commit"]
    /\ UNCHANGED <<db, conc>>
    /\ UNCHANGED seqvars

\* except Exception: print(...); self.connection.rollback(); return False
ConnectionRollback ==
    /\ ins.pc = "except"
    /\ conn' = NoTransaction
    /\ ins' = [ins EXCEPT !.pc = "returned"] @@ [result |-> FALSE]
    /\ UNCHANGED <<db, serial, conc>>
    /\ UNCHANGED seqvars

\* self.connection.commit(); return True.  The commit stands outside the try:
\* when it raises (the connection is lost, the server refuses the commit) the
\* transaction is gone, nothing is stored and the exception leaves the method.
ConnectionCommit ==
    /\ ins.pc = "commit"
    /\ \E fault \in BOOLEAN :
         IF fault
         THEN /\ ins' = [ins EXCEPT !.pc = "raised"]
              /\ UNCHANGED db
         ELSE /\ ins' = [ins EXCEPT !.pc = "returned"] @@ [result |-> TRUE]
              /\ db' = conn.work
    /\ conn' = NoTransaction
    /\ UNCHANGED <<serial, conc>>
    /\ UNCHANGED seqvars

NextTx ==
    \/ \E stmt \in TxStatements : ExecuteInsertCall(stmt)
    \/ CursorExecute
    \/ ConnectionRollback
    \/ ConnectionCommit

SpecTx == Init /\ [][NextTx]_vars

(***************************************************************************)
(* Record.get_id called by two runs side by side, each with a connection   *)
(* of its own to the same storage.  Every storage call is one committed    *)
(* transaction, so the calls of the two runs interleave as wholes.         *)
(***************************************************************************)
\* the entities the two runs resolve
ConcObjects ==
    {Language([iso_639_1 |-> "en", name |-> "English"]),
     Country([iso_3166_1 |-> "US", name |-> "USA"])}

ConcCall(p, stmt, fault, result) ==
    [by |-> p, stmt |-> stmt, fault |-> fault, result |-> result]

\* get_id(obj, database) is entered by run p
GetIdCalledBy(p, obj) ==
    /\ conc[p].pc = "none"
    /\ conc' = [conc EXCEPT ![p] = [pc |-> "q1", obj |-> obj]]
    /\ UNCHANGED <<db, serial, conn, ins>>
    /\ UNCHANGED seqvars

\* orig_id = database.execute_query_for_one(obj.get_id_query_statement());
\* else: return orig_id
GetIdFirstQueryBy(p) ==
    /\ conc[p].pc = "q1"
    /\ \E fault \in Faults :
         /\ nfaults' = IF fault THEN nfaults + 1 ELSE nfaults
         /\ LET stmt == get_id_query_statement(conc[p].obj)
                orig_id == execute_query_for_one(db, stmt, fault)
            IN  /\ calls' = Append(calls, ConcCall(p, stmt, fault, orig_id))
                /\ conc' = [conc EXCEPT ![p] =
                                IF NeedsInsert(orig_id)
                                THEN [pc |-> "ins", orig_id |-> orig_id] @@ @
                                ELSE [pc |-> "done", orig_id |-> orig_id, ret |-> orig_id] @@ @]
    /\ UNCHANGED <<db, serial, conn, ins>>
    /\ UNCHANGED <<raw, rec, build_error, run, printed, ret, gid, nruns>>

\* database.execute_insert(obj.get_insert_statement()), result dropped
GetIdInsertBy(p) ==
    /\ conc[p].pc = "ins"
    /\ \E fault \in Faults :
         /\ nfaults' = IF fault THEN nfaults + 1 ELSE nfaults
         /\ LET stmt == get_insert_statement(conc[p].obj)
                r == execute_insert(db, serial, stmt, fault)
            IN  /\ db' = r.db
                /\ serial' = r.serial
                /\ calls' = Append(calls, ConcCall(p, stmt, fault, r.ok))
                /\ conc' = [conc EXCEPT ![p] = [pc |-> "q2", insert_ok |-> r.ok] @@ @]
    /\ UNCHANGED <<conn, ins>>
    /\ UNCHANGED <<raw, rec, build_error, run, printed, ret, gid, nruns>>

\* return database.execute_query_for_one(obj.get_id_query_statement())
GetIdSecondQueryBy(p) ==
    /\ conc[p].pc = "q2"
    /\ \E fault \in Faults :
         /\ nfaults' = IF fault THEN nfaults + 1 ELSE nfaults
         /\ LET stmt == get_id_query_statement(conc[p].obj)
                new_id == execute_query_for_one(db, stmt, fault)
            IN  /\ calls' = Append(calls, ConcCall(p, stmt, fault, new_id))
                /\ conc' = [conc EXCEPT ![p] = [pc |-> "done", ret |-> RequeryResult(new_id)] @@ @]
    /\ UNCHANGED <<db, serial, conn, ins>>
    /\ UNCHANGED <<raw, rec, build_error, run, printed, ret, gid, nruns>>

NextConc ==
    \/ \E p \in Runs, obj \in ConcObjects : GetIdCalledBy(p, obj)
    \/ \E p \in Runs : GetIdFirstQueryBy(p)
    \/ \E p \in Runs : GetIdInsertBy(p)
    \/ \E p \in Runs : GetIdSecondQueryBy(p)

SpecConc == Init /\ [][NextConc]_vars

(***************************************************************************)
(* Properties                                                              *)
(***************************************************************************)
\* write_to_postgres has returned and its record is still the one in hand
Returned == run.status = "returned" /\ raw = run.r

Range(q) == {q[i] : i \in 1..Len(q)}

\* the execute_insert calls write_to_postgres made itself (not through get_id)
TopWrites == SelectSeq(calls, LAMBDA c : c.by = "write_to_postgres")

IsMovieInsert(c) == c.by = "write_to_postgres" /\ c.stmt.table = "tmdb_movies"

\* the entities write_to_postgres has to write, as <<table, id>>
EntitiesOf(self) ==
    {<<self.table_name, self.id>>, <<self.collection.table_name, self.collection.id>>}
    \cup {<<e.table_name, e.id>> : e \in Range(self.genres) \cup Range(self.production_companies)
                                        \cup Range(self.keywords) \cup Range(self.cast)
                                        \cup Range(self.crew)}

NumEntities(self) ==
    2 + Len(self.genres) + Len(self.production_companies) + Len(self.keywords)
      + Len(self.cast) + Len(self.crew)

Attempts(table, id) ==
    Cardinality({k \in 1..Len(TopWrites) :
                    TopWrites[k].stmt.table = table /\ TopWrites[k].stmt.values.id = id})

FailedWrites == SelectSeq(TopWrites, LAMBDA c : ~c.result)

\* C1: when write_to_postgres has returned, whatever the writes returned, the
\* movie row, the collection, every genre, company, keyword, cast and crew
\* member has had exactly one insert attempt and nothing else was written;
\* and while the call is in progress it always has a next statement to run
\* (no outcome of a write ends it early).
C1_EveryEntityAttemptedOnce ==
    /\ Returned =>
          /\ \A e \in EntitiesOf(rec) : Attempts(e[1], e[2]) = 1
          /\ Len(TopWrites) = NumEntities(rec)
    /\ Running => ENABLED RunStep

\* C1 witness: a run over all seven kinds returned although two writes failed
C1_Witness ==
    /\ Returned /\ raw = "movie1"
    /\ Len(TopWrites) = 7
    /\ Len(FailedWrites) >= 2
    /\ ~TopWrites[1].result

KindOf == [movie |-> "Movie", collection |-> "Collection", genres |-> "Genre",
           production_companies |-> "Company", keywords |-> "Keyword",
           cast |-> "Cast", crew |-> "Crew"]

NameOf(self, step) ==
    IF step.phase = "movie" THEN self.title
    ELSE IF step.phase = "collection" THEN self.collection.name
    ELSE self[step.phase][step.i].name

\* the failed writes of the run, each with the entity's kind and name
FailureReport ==
    [k \in 1..Len(FailedWrites) |->
        [kind |-> KindOf[FailedWrites[k].step.phase], name |-> NameOf(rec, FailedWrites[k].step)]]

PrintedFailures ==
    LET lines == SelectSeq(printed, LAMBDA l : l.line = "Failed to write")
    IN  [k \in 1..Len(lines) |-> [kind |-> lines[k].kind, name |-> lines[k].name]]

PyList(q) == [t |-> "list", v |-> q]

\* C2 as claimed: write_to_postgres returns the list of the failed writes
C2_ReturnsFailureReport ==
    Returned => ret = PyList(FailureReport)

\* C2 amended: write_to_postgres returns None; the failure lines it prints are
\* exactly the failed writes, in order, each with the entity's name, followed
\* by the closing line.
C2_PrintsFailureReport ==
    Returned =>
        /\ ret = PyNone
        /\ PrintedFailures = FailureReport
        /\ Len(printed) = Len(FailureReport) + 1
        /\ printed[Len(printed)].line = "Successfully wrote"

\* C2 witness: only the Collection write failed and one line names it
C2_Witness ==
    /\ Returned /\ raw = "movie1"
    /\ Len(TopWrites) = 7
    /\ FailureReport = <<[kind |-> "Collection", name |-> "Saga"]>>
    /\ PrintedFailures = FailureReport

ResolvedBefore(k, phase, i) ==
    \E j \in 1..(k - 1) : calls[j].by = "get_id" /\ calls[j].step = [phase |-> phase, i |-> i]

\* C3 as claimed: when the movie insert is issued, get_id has run for every
\* spoken language, every production country and the original language.
C3_AllResolvedBeforeMovie ==
    \A k \in 1..Len(calls) :
        (IsMovieInsert(calls[k]) /\ raw = run.r) =>
            /\ \A i \in 1..Len(rec.spoken_languages) : ResolvedBefore(k, "spoken_languages", i)
            /\ \A i \in 1..Len(rec.production_countries) : ResolvedBefore(k, "production_countries", i)
            /\ ResolvedBefore(k, "original_language", 0)

\* the part of C3 about spoken languages and production countries alone
SpokenAndCountriesResolvedBeforeMovie ==
    \A k \in 1..Len(calls) :
        (IsMovieInsert(calls[k]) /\ raw = run.r) =>
            /\ \A i \in 1..Len(rec.spoken_languages) : ResolvedBefore(k, "spoken_languages", i)
            /\ \A i \in 1..Len(rec.production_countries) : ResolvedBefore(k, "production_countries", i)

GetIdReturned == gid.state = "returned"

FirstLookupFoundNoRow == ~gid.q1fault /\ gid.q1 = PyNone

EntityOf(g) == rec[g.step.phase][g.step.i]

\* C4 as claimed: insert iff the first lookup ran and found no row; found N:
\* N returned, no insert, entity as it was; nothing found: one id-omitting
\* insert, then the second lookup's id returned.
C4_AsClaimed ==
    GetIdReturned =>
        /\ (gid.inserts # <<>>) <=> FirstLookupFoundNoRow
        /\ gid.q1 # PyNone =>
              /\ gid.ret = gid.q1
              /\ gid.inserts = <<>>
        /\ gid.q1 = PyNone =>
              /\ Len(gid.inserts) = 1
              /\ gid.inserts[1].stmt.columns = "natural"
              /\ gid.ret = gid.q2

\* C4 amended: insert iff the first lookup returned none (no row, or the query
\* failed); the one insert omits the id iff the entity's id is unset.
C4_Amended ==
    GetIdReturned =>
        /\ (gid.inserts # <<>>) <=> (gid.q1 = PyNone)
        /\ gid.q1 # PyNone =>
              /\ gid.ret = gid.q1
              /\ gid.inserts = <<>>
              /\ Running => EntityOf(gid) = [gid.before EXCEPT !.id = gid.q1]
        /\ gid.q1 = PyNone =>
              /\ Len(gid.inserts) = 1
              /\ (gid.inserts[1].stmt.columns = "natural") <=> (gid.before.id = PyNone)
              /\ gid.inserts[1].stmt.table = gid.before.table_name
              /\ gid.ret = gid.q2

\* C4 witness: the first lookup failed for an entity that already had its id,
\* and the one insert carried that id
C4_Witness ==
    /\ GetIdReturned
    /\ gid.q1 = PyNone /\ gid.q1fault
    /\ gid.before.id # PyNone
    /\ Len(gid.inserts) = 1 /\ gid.inserts[1].stmt.columns = "all"
    /\ gid.ret = gid.before.id

\* C5: the first lookup found no row and the insert failed: the second lookup
\* finds nothing and get_id returns None.
C5_FailedInsertUnresolved ==
    (GetIdReturned /\ FirstLookupFoundNoRow /\ Len(gid.inserts) = 1 /\ ~gid.inserts[1].ok)
        => (gid.q2 = PyNone /\ gid.ret = PyNone)

\* C5 witness: such a get_id has returned, its second lookup having run
C5_Witness ==
    /\ GetIdReturned /\ FirstLookupFoundNoRow
    /\ Len(gid.inserts) = 1 /\ ~gid.inserts[1].ok
    /\ ~gid.q2fault /\ gid.ret = PyNone

\* C6 as claimed: no movie insert sent to storage carries an unresolved id in
\* its country or spoken-language id arrays.
C6_NoUnresolvedIdSent ==
    \A k \in 1..Len(calls) :
        IsMovieInsert(calls[k]) =>
            /\ PyNone \notin Range(calls[k].stmt.values.production_country_ids)
            /\ PyNone \notin Range(calls[k].stmt.values.spoken_language_ids)

IsoOf(obj) == IF IsCountry(obj) THEN obj.iso_3166_1 ELSE obj.iso_639_1

RowsOf(table, iso) == {row \in db[table] : row.iso = iso}

Dimensions(self) == Range(self.spoken_languages) \cup Range(self.production_countries)

\* C7: the country and language tables hold at most one row per ISO code, and
\* exactly one row, with the id returned, for every code that was resolved.
C7_OneRowPerIso ==
    /\ \A t \in SerialTables : \A r1, r2 \in db[t] : r1.iso = r2.iso => r1 = r2
    /\ (GetIdReturned /\ gid.ret # PyNone) =>
          /\ Cardinality(RowsOf(gid.before.table_name, IsoOf(gid.before))) = 1
          /\ \A row \in RowsOf(gid.before.table_name, IsoOf(gid.before)) : row.id = gid.ret.v
    /\ rec # NoRecord =>
          \A obj \in Dimensions(rec) :
              obj.id # PyNone =>
                  /\ Cardinality(RowsOf(obj.table_name, IsoOf(obj))) = 1
                  /\ \A row \in RowsOf(obj.table_name, IsoOf(obj)) : row.id = obj.id.v

\* C7 witness: a second record sharing the code en was resolved against the
\* row the first record created, after a failed first lookup
C7_Witness ==
    /\ Returned /\ raw = "movie2" /\ nruns = 2
    /\ Cardinality(db["tmdb_languages"]) = 2
    /\ serial["tmdb_languages"] = 3
    /\ \A i \in 1..2 : rec.spoken_languages[i].id # PyNone

LastCall == calls[Len(calls)]

\* C8 as claimed: executing again the insert statement that has just succeeded
\* succeeds again and leaves the tables as they are.
C8_SecondInsertIdempotent ==
    (calls # <<>> /\ LastCall.stmt.op = "INSERT" /\ LastCall.result = TRUE) =>
        LET again == execute_insert(db, serial, LastCall.stmt, FALSE)
        IN  again.ok /\ again.db = db

\* C9: no step deletes a stored row or changes one: every table only grows.
C9_RowsOnlyAdded ==
    [][\A t \in Tables : db[t] \subseteq db'[t]]_vars

\* C9 witness: the second record's collection, same id under another name, was
\* written with success and the stored row is still the first record's
C9_Witness ==
    /\ calls # <<>> /\ LastCall.stmt.table = "tmdb_collection"
    /\ LastCall.result = TRUE
    /\ LastCall.stmt.values = [id |-> 10, name |-> "Saga II"]
    /\ db["tmdb_collection"] = {[id |-> 10, name |-> "Saga"]}

Required == basic_keys \cup Range(list_keys) \cup {"release_date"}

\* a raw record from_dict must accept: every field, a collection, a date
RawValid(d) ==
    /\ Required \subseteq DOMAIN d
    /\ Len(d.belongs_to_collection) >= 1
    /\ d.release_date \in ParsableDates

Rank == [movie |-> 1, collection |-> 2, genres |-> 3, production_companies |-> 3,
         keywords |-> 3, cast |-> 4, crew |-> 5]

\* C11: the inserts write_to_postgres issues come in dependency order: movie,
\* then collection, then genres, companies and keywords, then cast, then crew;
\* the first of them is the movie insert, so no cast or crew insert precedes it.
C11_WritesInDependencyOrder ==
    /\ \A j, k \in 1..Len(TopWrites) :
          j < k => Rank[TopWrites[j].step.phase] <= Rank[TopWrites[k].step.phase]
    /\ \A j, k \in 1..Len(TopWrites) :
          (j < k /\ TopWrites[k].step.phase \in {"collection", "cast", "crew"})
              => Rank[TopWrites[j].step.phase] < Rank[TopWrites[k].step.phase]
                 \/ TopWrites[j].step.phase = TopWrites[k].step.phase
    /\ TopWrites # <<>> => TopWrites[1].stmt.table = "tmdb_movies"

\* C11 witness: a run over all seven kinds ended; the cast and crew inserts
\* came last although the movie insert before them had failed
C11_Witness ==
    /\ Returned /\ raw = "movie1"
    /\ Len(TopWrites) = 7
    /\ ~TopWrites[1].result
    /\ TopWrites[6].stmt.table = "tmdb_cast" /\ TopWrites[7].stmt.table = "tmdb_crew"

\* the name of the ISO column of a country or a language
IsoColumn(obj) == IF IsCountry(obj) THEN "iso_3166_1" ELSE "iso_639_1"

RECURSIVE strip(_)
strip(s) ==
    IF s = <<>> THEN s
    ELSE IF Head(s) = " " THEN strip(Tail(s))
    ELSE IF s[Len(s)] = " " THEN strip(SubSeq(s, 1, Len(s) - 1))
    ELSE s

\* the text from the first token that is not a blank
RECURSIVE SkipBlanks(_)
SkipBlanks(text) ==
    IF text # <<>> /\ Head(text) = " " THEN SkipBlanks(Tail(text)) ELSE text

NotAList == [ok |-> FALSE, elems |-> <<>>]

\* The elements of a list of dollar-quoted strings that ends with "]":
\* $$...$$ then either "]" or "," and a further list
RECURSIVE DollarQuotedList(_)
DollarQuotedList(text) ==
    LET t == SkipBlanks(text)
    IN IF Len(t) < 3 \/ t[1] # "$$" \/ \A j \in 2..Len(t) : t[j] # "$$"
       THEN NotAList
       ELSE LET close == CHOOSE j \in 2..Len(t) :
                             t[j] = "$$" /\ \A i \in 2..(j - 1) : t[i] # "$$"
                rest == SkipBlanks(SubSeq(t, close + 1, Len(t)))
                more == DollarQuotedList(Tail(rest))
            IN IF rest = <<"]">>
               THEN [ok |-> TRUE, elems |-> <<SubSeq(t, 2, close - 1)>>]
               ELSE IF rest # <<>> /\ Head(rest) = "," /\ more.ok
               THEN [ok |-> TRUE, elems |-> <<SubSeq(t, 2, close - 1)>> \o more.elems]
               ELSE NotAList

\* the elements of ARRAY[$$...$$, $$...$$, ...]
ArrayElements(text) ==
    IF text # <<>> /\ Head(text) = "ARRAY[" THEN DollarQuotedList(Tail(text)) ELSE NotAList

\* the number of tokens of s equal to sep
Count(s, sep) == Cardinality({i \in 1..Len(s) : s[i] = sep})

\* the cast member an insert into the cast table was built from
CastOf(call) == Self.cast[call.step.i]

\* C13: every cast insert carries the character field as an array of
\* individually delimited elements, one per '/'-separated part in order, each
\* trimmed of surrounding blanks; k separators give k + 1 elements.
C13_CharacterSplitAndTrimmed ==
    \A k \in 1..Len(TopWrites) :
        (raw = run.r /\ TopWrites[k].step.phase = "cast") =>
            LET character == CastOf(TopWrites[k]).character
                parts == split(character, "/")
                array == ArrayElements(TopWrites[k].stmt.values.character)
            IN /\ array.ok
               /\ Len(array.elems) = Count(character, "/") + 1
               /\ array.elems = [i \in 1..Len(parts) |-> strip(parts[i])]

\* what the statement of the execute_insert call does to the rows stored
Effect == ExecInsert(ins.before, ins.serial_before, ins.stmt).db

\* every execute_insert call that returned left no transaction open; it
\* returned True with the statement's effect stored, or False with the rows
\* as they were before the call
ReturnsCommittedOrRolledBack ==
    ins.pc = "returned" =>
        /\ conn.status = "idle"
        /\ ins.result => db = Effect
        /\ ~ins.result => db = ins.before

\* C14: no execute_insert call raises to its caller; each ends with no
\* transaction open, having returned True with the statement's effect
\* committed or False with storage as it was before the call.
C14_OneTransactionNeverRaises ==
    /\ ins.pc # "raised"
    /\ ReturnsCommittedOrRolledBack

\* both runs were asked for the same entity
SameKey ==
    /\ \A p \in Runs : conc[p].pc # "none"
    /\ \A p, q \in Runs : conc[p].obj = conc[q].obj

\* run p issued its insert
Inserted(p) == "insert_ok" \in DOMAIN conc[p]

\* the rows stored for the entity run p resolves
KeyRows(p) == RowsOf(conc[p].obj.table_name, IsoOf(conc[p].obj))

IsInsertBy(call) == call.stmt.op = "INSERT" /\ ~call.fault

\* C15: when the two runs both issue the insert for one key, which each does
\* only after reading "not found", the first insert stores the row and the
\* second meets the duplicate-key conflict and fails; that state is reachable
\* (C15_Witness), so get_id's read, write and read are not one atomic step.
C15_SecondInsertMeetsConflict ==
    \A j, k \in 1..Len(calls) :
        (/\ j < k
         /\ IsInsertBy(calls[j]) /\ IsInsertBy(calls[k])
         /\ calls[j].by # calls[k].by
         /\ calls[j].stmt = calls[k].stmt)
        => /\ \A p \in Runs : conc[p].orig_id = PyNone
           /\ calls[j].result
           /\ ~calls[k].result
           /\ Cardinality(KeyRows(calls[k].by)) = 1

\* C15 witness: with no outside failure both runs have read "not found" for
\* the same key, both have issued the insert, and the later insert failed
C15_Witness ==
    /\ SameKey /\ nfaults = 0
    /\ \A p \in Runs : Inserted(p) /\ conc[p].orig_id = PyNone
    /\ \E j, k \in 1..Len(calls) :
          /\ j < k /\ IsInsertBy(calls[j]) /\ IsInsertBy(calls[k])
          /\ calls[j].by # calls[k].by
          /\ calls[j].result /\ ~calls[k].result

\* C16: two runs of get_id for one key absent at the start never leave two
\* rows for it; when both have ended without an outside failure there is
\* exactly one row for the key and each run returned that row's id.
C16_OneRowBothResolved ==
    SameKey =>
        /\ \A p \in Runs : Cardinality(KeyRows(p)) <= 1
        /\ (nfaults = 0 /\ \A p \in Runs : conc[p].pc = "done") =>
              \A p \in Runs :
                  /\ Cardinality(KeyRows(p)) = 1
                  /\ \E row \in KeyRows(p) : conc[p].ret = PyInt(row.id)

\* C16 witness: both runs read "not found", both inserted, one insert lost,
\* and both runs ended with the id of the one row
C16_Witness ==
    /\ SameKey /\ nfaults = 0
    /\ \A p \in Runs : conc[p].pc = "done" /\ Inserted(p) /\ conc[p].ret = PyInt(1)
    /\ \E p \in Runs : ~conc[p].insert_ok

====
